---- MODULE Spec2Model ----
(***************************************************************************)
(* packagebox: a manifest-driven install / uninstall tool.  The model      *)
(* follows src/packagebox.py: the disk (manifest cache, install            *)
(* directories, record file, desktop links) is the state, one action per   *)
(* command of main(), and one action per iteration of the wildcard loop.   *)
(* Strings whose spelling matters (package names, prompts, URLs) are       *)
(* sequences of one-character strings, so lower(), strip() and split()     *)
(* are computed, not assumed.                                              *)
(***************************************************************************)
EXTENDS Integers, Sequences, FiniteSets, TLC

\* ------------------------------------------------------------------ bounds
\* number of timestamps datetime.now() can hand out in one behaviour
MaxClock == 3
\* artifact contents a server can deliver are 1..MaxContent
MaxContent == 2

\* ----------------------------------------------------------------- strings
UpperChars == <<"A","B","C","D","E","F","G","H","I","J","K","L","M",
                "N","O","P","Q","R","S","T","U","V","W","X","Y","Z">>
LowerChars == <<"a","b","c","d","e","f","g","h","i","j","k","l","m",
                "n","o","p","q","r","s","t","u","v","w","x","y","z">>

\* upper-case letter -> its lower-case letter
ToLower ==
    [c \in {UpperChars[i] : i \in 1..26} |->
        LowerChars[CHOOSE i \in 1..26 : UpperChars[i] = c]]

\* str.lower() on one character
LowerChar(c) == IF c \in DOMAIN ToLower THEN ToLower[c] ELSE c

\* str.lower()
Lower(s) == [i \in 1..Len(s) |-> LowerChar(s[i])]

Whitespace == {" "}

\* str.strip()
RECURSIVE Strip(_)
Strip(s) ==
    IF s = <<>> THEN s
    ELSE IF Head(s) \in Whitespace THEN Strip(Tail(s))
    ELSE IF s[Len(s)] \in Whitespace THEN Strip(SubSeq(s, 1, Len(s) - 1))
    ELSE s

\* url.split('.')[-1]: what follows the last dot (the whole string if none)
SplitLast(s) ==
    LET dots == {i \in 1..Len(s) : s[i] = "."}
        last == IF dots = {} THEN 0 ELSE CHOOSE i \in dots : \A j \in dots : j <= i
    IN  SubSeq(s, last + 1, Len(s))

\* ------------------------------------------------------- names and inputs
Foo    == <<"F","o","o">>
foo    == <<"f","o","o">>
Bar    == <<"B","a","r">>
Baz    == <<"B","a","z">>
Qux    == <<"Q","u","x">>
Star   == <<"*">>
NoName == <<>>

\* the directory of the manifest cache, a sibling of the install directories
\* (get_json_path: radonteam / "packagebox" / "packages.json")
ManifestDir == <<"p","a","c","k","a","g","e","b","o","x">>

\* what the user may type as the package argument
ArgNames == {Foo, foo, Bar, Baz, Qux, ManifestDir, Star, NoName}

\* what the user may type at a (Y/N) prompt
Answers == { <<" ","Y"," ">>, <<"n">>, <<"y","e","s">> }

Platforms == {"Windows", "Darwin", "Linux"}

Contents == 1..MaxContent

\* hashlib.sha256(...).hexdigest(): lowercase hex, one digest per content
Sha256Hex(c) ==
    CASE c = 1 -> "6b86b273"
      [] c = 2 -> "d4735e3a"
      [] OTHER -> "4e074085"

\* ---------------------------------------------------------------- manifest
UrlZip == <<"h","/","a",".","z","i","p">>
UrlDmg == <<"h","/","a",".","d","m","g">>
UrlExe == <<"h","/","s","e","t","u","p",".","e","x","e">>

\* the packages.json the remote serves: three packages, names unique under
\* case-insensitive match.  On Windows all three can be installed; Bar is for
\* Windows only; Baz lists Darwin and Linux in os but has no url (nor sha256)
\* for Darwin and no sha256 for Linux
RemoteManifest ==
    [ updateurl |-> "custom",
      packages  |-> <<
        [ name |-> Foo, version |-> "1.0", os |-> {"Windows", "Darwin"},
          shortcut |-> TRUE,
          url    |-> [p \in {"Windows", "Darwin"} |->
                        IF p = "Windows" THEN UrlZip ELSE UrlDmg],
          sha256 |-> [p \in {"Windows", "Darwin"} |->
                        IF p = "Windows" THEN Sha256Hex(1) ELSE Sha256Hex(2)] ],
        [ name |-> Bar, version |-> "2.0", os |-> {"Windows"},
          shortcut |-> FALSE,
          url    |-> [p \in {"Windows"} |-> UrlExe],
          sha256 |-> [p \in {"Windows"} |-> Sha256Hex(2)] ],
        [ name |-> Baz, version |-> "3.1", os |-> {"Windows", "Darwin", "Linux"},
          shortcut |-> FALSE,
          url    |-> [p \in {"Windows", "Linux"} |-> UrlZip],
          sha256 |-> [p \in {"Windows"} |-> Sha256Hex(1)] ]
      >> ]

\* ------------------------------------------------------------------- state
VARIABLES
    platform,      \* platform.system(), fixed for a behaviour
    fsFoldsCase,   \* TRUE when the file system matches names ignoring case
    manifestFile,  \* packages.json: "nodir", "nofile", "garbage" or "valid"
    dirs,          \* install directories: stored name -> set of file names
    recordFile,    \* record.json: [kind, map]
    now,           \* last timestamp handed out by datetime.now()
    pc,            \* "shell": no process; "wild": inside the loop of
                   \* install('*'); "exited": the process has ended
    idx,           \* wildcard loop: index of the next manifest package
    last,          \* the current / most recent command and what it did
    batch          \* wildcard loop: one entry per finished sub-install

vars == <<platform, fsFoldsCase, manifestFile, dirs, recordFile,
          now, pc, idx, last, batch>>

\* ------------------------------------------------------------- file system
\* two spellings name the same directory entry
SamePath(a, b) == IF fsFoldsCase THEN Lower(a) = Lower(b) ELSE a = b

\* Path.exists() for get_installation_path(name)
Exists(ds, name) == \E d \in DOMAIN ds : SamePath(d, name)

\* the stored spelling of the entry that name resolves to
Stored(ds, name) == CHOOSE d \in DOMAIN ds : SamePath(d, name)

\* install_path.exists() for get_installation_path(name): radonteam / name is
\* an install directory, or the directory that holds the manifest cache
PathExists(mf, ds, name) ==
    Exists(ds, name) \/ (SamePath(name, ManifestDir) /\ mf # "nodir")

\* Path.mkdir(parents=True, exist_ok=True)
Mkdir(ds, name) == IF Exists(ds, name) THEN ds ELSE (name :> {}) @@ ds

\* a file written at install_path / fname (an existing entry keeps its spelling)
WriteFile(ds, name, fname) ==
    LET d == Stored(ds, name)
    IN  [ds EXCEPT ![d] = IF \E f \in @ : SamePath(f, fname) THEN @ ELSE @ \cup {fname}]

\* shutil.rmtree(install_path)
Rmtree(ds, name) ==
    LET d == Stored(ds, name)
    IN  [e \in (DOMAIN ds) \ {d} |-> ds[e]]

\* ------------------------------------------------------------------ record
EmptyMap == <<>>

\* what record.json can be: "absent"; "garbage", text that is not JSON;
\* "object", a JSON object; "array", JSON text whose value is the list [];
\* "undecodable", bytes that are not text in the encoding open() uses
RecordKinds == {"absent", "garbage", "object", "array", "undecodable"}

\* read_record() returns a dict: the file is missing, or json.load fails with
\* JSONDecodeError, or it gives a JSON object
ReadsMapping(rf) == rf.kind \in {"absent", "garbage", "object"}

\* read_record() raises: f.read() inside json.load fails with
\* UnicodeDecodeError, which is not among the exceptions line 51 catches
ReadRaises(rf) == rf.kind = "undecodable"

\* the entries of what read_record() returns: those of an object file, none
\* for a missing file, for text that is not JSON and for the list []
ReadRecord(rf) == IF rf.kind = "object" THEN rf.map ELSE EmptyMap

\* write_record(record)
WriteRecord(m) == [kind |-> "object", map |-> m]

\* fault seeded for C8: the new entry replaces the mapping instead of joining it
SetEntryAlone(m, key, entry) == [k \in {key} |-> entry]

\* record[key] = entry
SetEntry(m, key, entry) == [k \in (DOMAIN m) \cup {key} |-> IF k = key THEN entry ELSE m[k]]

\* del record[key]
DelEntry(m, key) == [k \in (DOMAIN m) \ {key} |-> m[k]]

\* --------------------------------------------------------- one command run
\* A run carries the disk it works on and what it has done so far.
\*   raised    : the place the run failed at, "none" while it has not
\*   exc       : the Python exception in flight ("none", "SystemExit", ...)
\*   cancelled : the user declined the prompt and the function returned
\*   log       : the externally visible steps, in order, as <<step, subject>>
NewRun ==
    [ mf |-> manifestFile, dirs |-> dirs, rec |-> recordFile,
      now |-> now, log |-> <<>>, raised |-> "none", exc |-> "none",
      cancelled |-> FALSE, pkg |-> 0, answer |-> <<>>, content |-> 0 ]

Done(r) == r.raised # "none" \/ r.cancelled

\* handle_error(message): print, then sys.exit(1)
HandleError(r, site) == [r EXCEPT !.raised = site, !.exc = "SystemExit"]

\* a statement of the try body raises an exception of class cls
Raise(r, site, cls) == [r EXCEPT !.raised = site, !.exc = cls]

Note(r, step, subject) == [r EXCEPT !.log = Append(@, <<step, subject>>)]

\* the process exit status: sys.exit(1) and an uncaught exception give 1
ExitCode(r) == IF r.exc = "none" THEN 0 ELSE 1

\* ---------------------------------------------------------------- manifest
ManifestExists(mf) == mf \in {"garbage", "valid"}

\* what a fetch of packages.json can give when one is attempted
FetchResults == {"fail", "valid"}

\* fault seeded for C16: the manifest is fetched even when a cache exists
EnsurePackagesFileAlways(r, fetch) ==
    [Note(r, "fetch_manifest", <<>>) EXCEPT !.mf = fetch]

\* ensure_packages_file()
EnsurePackagesFile(r, fetch) ==
    IF ManifestExists(r.mf) THEN r
    ELSE IF fetch = "fail"
         THEN HandleError([Note(r, "fetch_manifest", <<>>) EXCEPT !.mf = "nofile"],
                          "manifest_fetch_failed")
         ELSE [Note(r, "fetch_manifest", <<>>) EXCEPT !.mf = fetch]

\* with open(get_json_path()) as f: data = json.load(f)
LoadManifest(r) ==
    IF r.mf = "valid" THEN r
    ELSE IF r.mf = "garbage" THEN Raise(r, "manifest_parse", "JSONDecodeError")
    ELSE Raise(r, "manifest_missing", "FileNotFoundError")

\* data.get("packages", [])
Packages(mf) == IF mf = "valid" THEN RemoteManifest.packages ELSE <<>>

\* next((pkg for pkg in packages if pkg["name"].lower() == name.lower()), None)
\* as an index into packages, 0 for None
FindPackage(pkgs, name) ==
    LET hits == {i \in 1..Len(pkgs) : Lower(pkgs[i].name) = Lower(name)}
    IN  IF hits = {} THEN 0 ELSE CHOOSE i \in hits : \A j \in hits : i <= j

\* ----------------------------------------------------------------- install
\* lines 159-161: look the package up
StageLookup(r, name) ==
    LET i == FindPackage(Packages(r.mf), name)
    IN  IF i = 0 THEN HandleError(r, "package_not_found")
        ELSE [r EXCEPT !.pkg = i]

\* fault seeded for C3: the platform gate lets every platform through
SupportedAnywhere(pkg, plat) == TRUE

\* platform_name in package["os"]
Supported(pkg, plat) == plat \in pkg.os

\* lines 162-164: the platform gate
StageGate(r, name) ==
    IF Supported(Packages(r.mf)[r.pkg], platform) THEN r
    ELSE HandleError(r, "unsupported_platform")

\* fault seeded for C10: only an explicit 'n' declines
DeclinedOnlyN(a) == Lower(Strip(a)) = <<"n">>

\* input(...).strip().lower() != 'y'
Declined(a) == Lower(Strip(a)) # <<"y">>

\* lines 165-169: the confirmation prompt
StageConfirm(r, name, skip, a) ==
    IF skip THEN r
    ELSE LET asked == [Note(r, "prompt", name) EXCEPT !.answer = a]
         IN  IF Declined(a) THEN [asked EXCEPT !.cancelled = TRUE] ELSE asked

\* what urlretrieve of an artifact can do: fail before a byte is written,
\* fail leaving a partial file, or deliver some content
Downloads ==
    {[kind |-> "refused", content |-> 0], [kind |-> "truncated", content |-> 0]}
    \cup {[kind |-> "ok", content |-> c] : c \in Contents}

\* f"{package_name}.{url.split('.')[-1]}"
ArtifactName(name, url) == name \o <<".">> \o SplitLast(url)

\* fault seeded for C15: a missing url / sha256 entry makes the call return
\* quietly instead of failing
MissingEntryIgnored(r, site) == [r EXCEPT !.cancelled = TRUE]

\* package["url"][platform_name], package["sha256"][platform_name] without
\* an entry for the platform: KeyError
MissingEntry(r, site) == Raise(r, site, "KeyError")

\* lines 170-181: directory, artifact name, download
StageDownload(r, name, dl) ==
    LET pkg == Packages(r.mf)[r.pkg] IN
    IF platform \notin DOMAIN pkg.url THEN MissingEntry(r, "no_url")
    ELSE IF platform \notin DOMAIN pkg.sha256 THEN MissingEntry(r, "no_sha256")
    ELSE LET made == [Note(r, "mkdir", name) EXCEPT !.dirs = Mkdir(@, name)]
             file == ArtifactName(name, pkg.url[platform])
             tried == Note(made, "download", name)
         IN  CASE dl.kind = "refused" -> Raise(tried, "download_failed", "URLError")
               [] dl.kind = "truncated" ->
                    Raise([tried EXCEPT !.dirs = WriteFile(@, name, file)],
                          "download_failed", "ContentTooShortError")
               [] OTHER ->
                    [tried EXCEPT !.dirs = WriteFile(@, name, file),
                                  !.content = dl.content]

\* fault seeded for C1: the digest is computed but not compared
ValidateChecksumLax(content, expected) == TRUE

\* validate_checksum(file_path, expected_hash)
ValidateChecksum(content, expected) == Sha256Hex(content) = expected

\* fault seeded for C2: a mismatch is reported but the install goes on
StageVerifyWarnOnly(r, name) == Note(r, "verified", name)

\* lines 182-183
StageVerify(r, name) ==
    LET pkg == Packages(r.mf)[r.pkg] IN
    IF ValidateChecksum(r.content, pkg.sha256[platform]) THEN Note(r, "verified", name)
    ELSE HandleError(r, "checksum_mismatch")

\* fault seeded for C11: a failure inside create_shortcut is not caught
CreateShortcutFatal(r, name, ok) ==
    IF ok THEN Note(r, "shortcut", name)
    ELSE Raise(Note(r, "warning", name), "shortcut_failed", "OSError")

\* create_shortcut(target, shortcut_name): the link is made on the desktop,
\* outside the tool's directories; ok = FALSE is any failure (no win32com, a
\* link of that name already there, ...), which ends in handle_warning and
\* never in an exception
CreateShortcut(r, name, ok) ==
    IF ok THEN Note(r, "shortcut", name) ELSE Note(r, "warning", name)

\* the key the record entry is stored under
RecordKey(name, pkg) == name

\* lines 184-195: shortcut, then the record entry
StageFinalize(r, name, scOk) ==
    LET pkg == Packages(r.mf)[r.pkg] IN
    IF ~PathExists(r.mf, r.dirs, name) THEN r
    ELSE LET linked == IF pkg.shortcut /\ r.dirs[Stored(r.dirs, name)] # {}
                       THEN CreateShortcut(r, name, scOk) ELSE r
             entry  == [version |-> pkg.version, installed_on |-> r.now + 1]
         IN  IF Done(linked) THEN linked
             ELSE IF ReadRaises(linked.rec)
                  THEN Raise(linked, "record_read", "UnicodeDecodeError")
             ELSE IF ~ReadsMapping(linked.rec)
                  THEN Raise(linked, "record_set", "TypeError")
             ELSE [Note(linked, "record", name) EXCEPT
                     !.now = @ + 1,
                     !.rec = WriteRecord(SetEntry(ReadRecord(@), RecordKey(name, pkg), entry))]

\* fault seeded for C9: the handler reports the exception and returns
ExceptInstallSwallows(r) ==
    IF r.exc \in {"none", "SystemExit"} THEN r ELSE [r EXCEPT !.exc = "none"]

\* lines 196-199: both handlers call handle_error; SystemExit passes through
ExceptInstall(r) ==
    IF r.exc \in {"none", "SystemExit"} THEN r ELSE HandleError(r, r.raised)

\* install_package up to the prompt (lines 151-169) for one package name
InstallHead(r, name, skip, fetch, a) ==
    LET r1 == EnsurePackagesFile(r, fetch) IN
    IF Done(r1) THEN r1 ELSE
    LET r2 == LoadManifest(r1) IN
    IF Done(r2) THEN r2 ELSE
    LET r3 == StageLookup(r2, name) IN
    IF Done(r3) THEN r3 ELSE
    LET r4 == StageGate(r3, name) IN
    IF Done(r4) THEN r4 ELSE StageConfirm(r4, name, skip, a)

\* install_package from the download on (lines 170-195)
InstallTail(r, name, dl, scOk) ==
    LET r1 == StageDownload(r, name, dl) IN
    IF Done(r1) THEN r1 ELSE
    LET r2 == StageVerify(r1, name) IN
    IF Done(r2) THEN r2 ELSE StageFinalize(r2, name, scOk)

\* --------------------------------------------------------------- uninstall
\* what shutil.rmtree can do: remove the tree, or raise (a file in use,
\* a permission refused) and leave it
RmtreeResults == {"removed", "oserror"}

\* lines 65-75: prompt, remove the tree, drop the record entry
UninstallExisting(r, name, skip, a, rm) ==
    LET r1 == StageConfirm(r, name, skip, a) IN
    IF Done(r1) THEN r1
    ELSE IF rm = "oserror" THEN Raise(Note(r1, "rmtree", name), "rmtree_failed", "OSError")
    ELSE LET r2  == IF Exists(r1.dirs, name)
                    THEN [Note(r1, "rmtree", name) EXCEPT !.dirs = Rmtree(@, name)]
                    ELSE [Note(r1, "rmtree", name) EXCEPT !.mf = "nodir"]
             rec == ReadRecord(r2.rec)
         IN  IF ReadRaises(r2.rec) THEN Raise(r2, "record_read", "UnicodeDecodeError")
             ELSE IF name \in DOMAIN rec
             THEN [Note(r2, "record", name) EXCEPT !.rec = WriteRecord(DelEntry(rec, name))]
             ELSE r2

\* fault seeded for C6: a missing directory is not treated as an error
UninstallBodyUnchecked(r, name, skip, a, rm) ==
    IF ~PathExists(r.mf, r.dirs, name) THEN StageConfirm(r, name, skip, a)
    ELSE UninstallExisting(r, name, skip, a, rm)

\* fault seeded for C19: uninstall goes by the record, not by the directory
UninstallBodyByRecord(r, name, skip, a, rm) ==
    IF name \notin DOMAIN ReadRecord(r.rec) THEN HandleError(r, "not_installed")
    ELSE UninstallExisting(r, name, skip, a, rm)

\* uninstall_package(package_name, skip_confirmation), lines 60-75
UninstallBody(r, name, skip, a, rm) ==
    IF ~PathExists(r.mf, r.dirs, name) THEN HandleError(r, "not_installed")
    ELSE UninstallExisting(r, name, skip, a, rm)

\* lines 76-77
ExceptUninstall(r) ==
    IF r.exc \in {"none", "SystemExit"} THEN r ELSE HandleError(r, r.raised)

\* ------------------------------------------------------------ update, list
DefaultUpdateUrl == "default"

\* update_packages(), lines 91-105
UpdateBody(r, fetch) ==
    LET url   == IF r.mf = "valid" THEN RemoteManifest.updateurl ELSE DefaultUpdateUrl
        tried == Note(r, "fetch_manifest", url)
    IN  IF fetch = "fail" THEN HandleError(tried, "update_fetch_failed")
        ELSE IF r.mf = "nodir" THEN HandleError(tried, "update_write_failed")
        ELSE [tried EXCEPT !.mf = fetch]

\* list_packages(), lines 107-124
ListBody(r, fetch) ==
    LET r1 == EnsurePackagesFile(r, fetch) IN
    IF Done(r1) THEN r1 ELSE
    LET r2 == LoadManifest(r1) IN
    IF Done(r2) THEN HandleError(r2, r2.raised) ELSE Note(r2, "print", <<>>)

\* ---------------------------------------------------------------- commands
\* the record held an entry for manifest package i under some spelling
HasEntryFor(rf, mf, i) ==
    i # 0 /\ \E k \in DOMAIN ReadRecord(rf) : Lower(k) = Lower(Packages(mf)[i].name)

\* what is remembered of a command: its arguments, how it ended, its steps,
\* and two facts about the record as the command found it
Summary(cmd, name, skip, r, running) ==
    [ cmd |-> cmd, name |-> name, skip |-> skip, raised |-> r.raised,
      exit |-> ExitCode(r), cancelled |-> r.cancelled, log |-> r.log,
      asked |-> r.answer # <<>> \/ \E i \in 1..Len(r.log) : r.log[i][1] = "prompt",
      answer |-> r.answer, content |-> r.content, pkg |-> r.pkg,
      hadEntry |-> HasEntryFor(recordFile, r.mf, r.pkg),
      emptyRecord |-> DOMAIN ReadRecord(recordFile) = {}, running |-> running ]

\* the run's disk becomes the disk
Commit(r) ==
    /\ r.now <= MaxClock
    /\ manifestFile' = r.mf
    /\ dirs' = r.dirs
    /\ recordFile' = r.rec
    /\ now' = r.now

FetchInputs == IF ManifestExists(manifestFile) THEN {"valid"} ELSE FetchResults

PromptInputs(skip) == IF skip THEN {<<>>} ELSE Answers

\* create_shortcut is only called for a package with shortcut = true
ShortcutInputs(r) == IF Packages(r.mf)[r.pkg].shortcut THEN BOOLEAN ELSE {TRUE}

\* rmtree is only called on an existing directory
RmtreeInputs(name) == IF PathExists(manifestFile, dirs, name) THEN RmtreeResults ELSE {"removed"}

\* main(): install <name> [-y], one package
Install(name, skip) ==
    /\ pc = "shell"
    /\ name \notin {Star, NoName}
    /\ \E fetch \in FetchInputs, a \in PromptInputs(skip) :
         \E h \in {InstallHead(NewRun, name, skip, fetch, a)} :
           IF Done(h)
           THEN \E t \in {ExceptInstall(h)} :
                  /\ Commit(t)
                  /\ last' = Summary("install", name, skip, t, FALSE)
           ELSE \E dl \in Downloads, scOk \in ShortcutInputs(h) :
                  \E t \in {ExceptInstall(InstallTail(h, name, dl, scOk))} :
                    /\ Commit(t)
                    /\ last' = Summary("install", name, skip, t, FALSE)
    /\ pc' = "exited"
    /\ UNCHANGED <<platform, fsFoldsCase, idx, batch>>

\* main(): install / uninstall without a package argument, lines 213-214, 217-218
MissingArgument(cmd, skip) ==
    /\ pc = "shell"
    /\ last' = Summary(cmd, NoName, skip, HandleError(NewRun, "no_package_argument"), FALSE)
    /\ pc' = "exited"
    /\ UNCHANGED <<platform, fsFoldsCase, manifestFile, dirs, recordFile,
                   now, idx, batch>>

\* main(): install '*' [-y], up to the loop (lines 151-155)
WildStart(skip) ==
    /\ pc = "shell"
    /\ \E fetch \in FetchInputs :
         \E r1 \in {EnsurePackagesFile(NewRun, fetch)} :
         \E r2 \in {IF Done(r1) THEN r1 ELSE ExceptInstall(LoadManifest(r1))} :
         LET go == ~Done(r2) /\ Len(Packages(r2.mf)) > 0
         IN  /\ Commit(r2)
             /\ last' = Summary("install", Star, skip, r2, go)
             /\ pc' = IF go THEN "wild" ELSE "exited"
             /\ idx' = IF go THEN 1 ELSE 0
    /\ batch' = <<>>
    /\ UNCHANGED <<platform, fsFoldsCase>>

\* fault seeded for C7: a failed sub-install does not end the loop
MoreDespiteAbort(t, i, n) == i < n

\* fault seeded for C20: a declined prompt ends the loop as well
MoreUnlessCancelled(t, i, n) == t.raised = "none" /\ ~t.cancelled /\ i < n

\* the loop goes on to package i + 1 of n: the inner call returned (it did
\* not leave through sys.exit) and packages remain
More(t, i, n) == t.raised = "none" /\ i < n

\* one iteration of `for package in packages: install_package(package['name'], ...)`
\* (lines 156-157); SystemExit from the inner call ends the command
WildStep ==
    /\ pc = "wild"
    /\ LET pkgs == Packages(manifestFile)
           name == pkgs[idx].name
           r0   == [NewRun EXCEPT !.log = last.log]
       IN  \E a \in PromptInputs(last.skip) :
             \E h \in {InstallHead(r0, name, last.skip, "valid", a)} :
             LET finish(t) ==
                    LET more == More(t, idx, Len(pkgs))
                        back == [t EXCEPT !.cancelled = FALSE]
                    IN  /\ Commit(t)
                        /\ batch' = Append(batch, [name |-> name, raised |-> t.raised,
                                                   cancelled |-> t.cancelled])
                        /\ last' = [Summary("install", Star, last.skip, back, more)
                                      EXCEPT !.hadEntry = last.hadEntry,
                                             !.emptyRecord = last.emptyRecord]
                        /\ pc' = IF more THEN "wild" ELSE "exited"
                        /\ idx' = IF more THEN idx + 1 ELSE 0
             IN  IF Done(h) THEN \E t \in {ExceptInstall(h)} : finish(t)
                 ELSE \E dl \in Downloads, scOk \in ShortcutInputs(h) :
                        \E t \in {ExceptInstall(InstallTail(h, name, dl, scOk))} : finish(t)
    /\ UNCHANGED <<platform, fsFoldsCase>>

\* main(): uninstall <name> [-y]
Uninstall(name, skip) ==
    /\ pc = "shell"
    /\ name # NoName
    /\ \E a \in PromptInputs(skip), rm \in RmtreeInputs(name) :
         \E r \in {ExceptUninstall(UninstallBody(NewRun, name, skip, a, rm))} :
         /\ Commit(r)
         /\ last' = Summary("uninstall", name, skip, r, FALSE)
    /\ pc' = "exited"
    /\ UNCHANGED <<platform, fsFoldsCase, idx, batch>>

\* main(): update
Update ==
    /\ pc = "shell"
    /\ \E fetch \in FetchResults :
         \E r \in {UpdateBody(NewRun, fetch)} :
         /\ Commit(r)
         /\ last' = Summary("update", NoName, FALSE, r, FALSE)
    /\ pc' = "exited"
    /\ UNCHANGED <<platform, fsFoldsCase, idx, batch>>

\* main(): list
List ==
    /\ pc = "shell"
    /\ \E fetch \in FetchInputs :
         \E r \in {ListBody(NewRun, fetch)} :
         /\ Commit(r)
         /\ last' = Summary("list", NoName, FALSE, r, FALSE)
    /\ pc' = "exited"
    /\ UNCHANGED <<platform, fsFoldsCase, idx, batch>>

\* ----------------------------------------------------------- specification
NoCommand ==
    [ cmd |-> "none", name |-> NoName, skip |-> FALSE, raised |-> "none", exit |-> 0,
      cancelled |-> FALSE, log |-> <<>>, asked |-> FALSE, answer |-> <<>>,
      content |-> 0, pkg |-> 0, hadEntry |-> FALSE, emptyRecord |-> TRUE,
      running |-> FALSE ]

\* a machine the tool has not run on yet, or one with a manifest cached
\* (possibly a damaged one); no install directory; no record file, or one
\* that does not hold a JSON object.  Windows volumes match names ignoring
\* case, the others may or may not.
Init ==
    /\ platform \in Platforms
    /\ fsFoldsCase \in (IF platform = "Windows" THEN {TRUE} ELSE BOOLEAN)
    /\ manifestFile \in {"nodir", "valid", "garbage"}
    /\ dirs = EmptyMap
    /\ recordFile \in {[kind |-> k, map |-> EmptyMap] : k \in RecordKinds \ {"object"}}
    /\ now = 0
    /\ pc = "shell"
    /\ idx = 0
    /\ last = NoCommand
    /\ batch = <<>>

\* the process is gone: the shell has its exit status and prompts again
ShellReturns ==
    /\ pc = "exited"
    /\ pc' = "shell"
    /\ last' = NoCommand
    /\ batch' = <<>>
    /\ UNCHANGED <<platform, fsFoldsCase, manifestFile, dirs, recordFile,
                   now, idx>>

Next ==
    \/ \E name \in ArgNames, skip \in BOOLEAN : Install(name, skip)
    \/ \E cmd \in {"install", "uninstall"}, skip \in BOOLEAN : MissingArgument(cmd, skip)
    \/ \E skip \in BOOLEAN : WildStart(skip)
    \/ WildStep
    \/ \E name \in ArgNames, skip \in BOOLEAN : Uninstall(name, skip)
    \/ Update
    \/ List
    \/ ShellReturns

Spec == Init /\ [][Next]_vars

\* =================================================================== claims
\* Vocabulary of the properties below.

\* the package argument of the install_package call the latest step ran
CurName ==
    IF last.name = Star /\ batch # <<>> THEN batch[Len(batch)].name ELSE last.name

\* the step ran install_package for one package: a single-package install
\* from the shell, or one iteration of the wildcard loop
InstallCall ==
    \/ pc = "shell" /\ last'.cmd = "install" /\ last'.name \notin {Star, NoName}
    \/ pc = "wild"

\* what the step appended to the log
NewEvents == SubSeq(last'.log, Len(last.log) + 1, Len(last'.log))

HasEvent(log, step) == \E i \in 1..Len(log) : log[i][1] = step

\* every `second` in the log has a `first` before it
Precedes(log, first, second) ==
    \A j \in 1..Len(log) : log[j][1] = second => \E i \in 1..(j - 1) : log[i][1] = first

\* the expected hash manifest mf gives for its package i on this platform
ExpectedHash(mf, i) == Packages(mf)[i].sha256[platform]

\* the latest install downloaded an artifact whose digest is not the manifest's
Mismatch ==
    /\ last.cmd = "install" /\ last.pkg # 0 /\ last.content # 0
    /\ Sha256Hex(last.content) # ExpectedHash(manifestFile, last.pkg)

\* the latest install_package call named a manifest package (the one its
\* lookup found) that does not list the current platform
Unsupported ==
    /\ last.cmd = "install" /\ CurName \notin {Star, NoName}
    /\ \E i \in {last.pkg} :
          i # 0 /\ platform \notin Packages(manifestFile)[i].os

\* C1: in a run of install for one package the record is written only after the
\* artifact was downloaded and its digest equalled the manifest hash, in that
\* run, and only under that package's key; a run that aborts leaves the record
\* file exactly as it was.
C1_RecordOnlyAfterVerifiedDownload ==
    [][ InstallCall =>
          /\ (HasEvent(NewEvents, "record") \/ ReadRecord(recordFile') # ReadRecord(recordFile))
               => /\ HasEvent(NewEvents, "record")
                  /\ Precedes(NewEvents, "download", "verified")
                  /\ Precedes(NewEvents, "verified", "record")
                  /\ last'.pkg # 0 /\ last'.content # 0
                  /\ Sha256Hex(last'.content) = ExpectedHash(manifestFile', last'.pkg)
                  /\ \A k \in DOMAIN ReadRecord(recordFile') :
                        k # CurName' =>
                          /\ k \in DOMAIN ReadRecord(recordFile)
                          /\ ReadRecord(recordFile')[k] = ReadRecord(recordFile)[k]
          /\ (last'.raised # "none" => recordFile' = recordFile)
      ]_vars

\* C1 witness: a single-package install that wrote a new record entry
C1_Witness ==
    /\ pc = "exited" /\ last.cmd = "install" /\ last.name = Foo
    /\ last.raised = "none" /\ HasEvent(last.log, "record") /\ ~last.hadEntry
    /\ Foo \in DOMAIN ReadRecord(recordFile)

\* C2 as stated: whenever the downloaded artifact's digest differs from the
\* manifest hash, install aborts and the record has no entry for the package.
C2_Original ==
    Mismatch => /\ last.raised # "none" /\ last.exit = 1
                /\ ~HasEntryFor(recordFile, manifestFile, last.pkg)

\* C2 amended: on a digest mismatch install aborts with exit code 1 and leaves
\* the record file exactly as it was: no entry is added or updated, so the
\* package has an entry afterwards only if it had one before the run.
C2_MismatchLeavesRecord ==
    [][ (InstallCall /\ Mismatch') =>
          /\ last'.raised # "none" /\ last'.exit = 1 /\ pc' = "exited"
          /\ recordFile' = recordFile
          /\ HasEntryFor(recordFile', manifestFile', last'.pkg)
               <=> HasEntryFor(recordFile, manifestFile', last'.pkg)
      ]_vars

\* C2 witness: a mismatch on a re-install; the entry of the earlier install is
\* still in the record
C2_Witness ==
    /\ pc = "exited" /\ Mismatch /\ last.name # Star /\ last.hadEntry
    /\ last.raised # "none"
    /\ HasEntryFor(recordFile, manifestFile, last.pkg)

\* C3: install of a manifest package whose os does not list the current platform
\* aborts (exit code 1) with the install directories and the record file
\* untouched, and before any prompt, directory creation or artifact download.
\* (Reading the manifest comes first, so a missing cache is fetched.)
C3_UnsupportedAbortsEarly ==
    [][ (InstallCall /\ Unsupported') =>
          /\ last'.raised # "none" /\ last'.exit = 1 /\ pc' = "exited"
          /\ dirs' = dirs
          /\ recordFile' = recordFile
          /\ \A i \in 1..Len(NewEvents) :
                NewEvents[i][1] \notin {"prompt", "mkdir", "download", "record"}
      ]_vars

\* C3 witness: an install without -y of a package not available here has ended
C3_Witness ==
    /\ pc = "exited" /\ Unsupported /\ ~last.skip /\ last.name = Bar
    /\ last.raised # "none"

\* the latest command was a single-package install that ran to its end
InstalledOne ==
    /\ pc = "exited" /\ last.cmd = "install" /\ last.name \notin {Star, NoName}
    /\ last.raised = "none" /\ ~last.cancelled /\ HasEvent(last.log, "record")

\* the record keys that name manifest package i, under any spelling
KeysFor(i) ==
    {k \in DOMAIN ReadRecord(recordFile) : Lower(k) = Lower(Packages(manifestFile)[i].name)}

\* C4 as stated: after a successful install of a package the record already
\* held an entry for (so installed successfully before, under whatever name
\* the lookup resolves to it), the record holds exactly one entry for the
\* package, with the manifest's version and this run's timestamp.
C4_Original ==
    (InstalledOne /\ last.hadEntry) =>
        /\ Cardinality(KeysFor(last.pkg)) = 1
        /\ \A k \in KeysFor(last.pkg) :
              ReadRecord(recordFile)[k] =
                 [version |-> Packages(manifestFile)[last.pkg].version, installed_on |-> now]

\* the latest command was an uninstall that removed a directory and returned
UninstalledOne ==
    /\ pc = "exited" /\ last.cmd = "uninstall" /\ last.raised = "none"
    /\ ~last.cancelled /\ HasEvent(last.log, "rmtree")

\* C5 as stated: after a successful uninstall, by any name under which the
\* install directory was found, the directory is gone and the record holds no
\* entry for that package.
C5_Original ==
    UninstalledOne =>
        /\ ~Exists(dirs, last.name)
        /\ \A k \in DOMAIN ReadRecord(recordFile) : Lower(k) # Lower(last.name)

\* C6: uninstall of a name whose install directory does not exist aborts with
\* exit code 1, shows no prompt and leaves the record file (and the
\* directories) exactly as they were.
C6_AbsentDirectoryAborts ==
    [][ (pc = "shell" /\ last'.cmd = "uninstall" /\ last'.name # NoName
           /\ ~PathExists(manifestFile, dirs, last'.name)) =>
          /\ last'.raised # "none" /\ last'.exit = 1 /\ pc' = "exited"
          /\ ~HasEvent(last'.log, "prompt")
          /\ recordFile' = recordFile
          /\ dirs' = dirs
      ]_vars

\* C6 witness: an uninstall without -y aborted on a missing directory while
\* the record holds an entry under that very name
C6_Witness ==
    /\ pc = "exited" /\ last.cmd = "uninstall" /\ ~last.skip
    /\ last.raised # "none" /\ ~PathExists(manifestFile, dirs, last.name)
    /\ last.name \in DOMAIN ReadRecord(recordFile)

\* the names of manifest packages lo..hi
NamesOf(lo, hi) == {Packages(manifestFile)[j].name : j \in lo..hi}

\* a wildcard install has ended on a digest mismatch of package k, having
\* started on an empty record
WildMismatchAt(k) ==
    /\ pc = "exited" /\ last.cmd = "install" /\ last.name = Star
    /\ last.emptyRecord /\ Mismatch /\ last.pkg = k

\* what C7 says of the run apart from the record: packages were taken in
\* manifest order, none before k aborted, nothing was run, created or
\* downloaded for packages after k, and the exit code is 1
WildStoppedAt(k) ==
    /\ Len(batch) = k
    /\ \A j \in 1..k : batch[j].name = Packages(manifestFile)[j].name
    /\ \A j \in 1..(k - 1) : batch[j].raised = "none"
    /\ \A i \in 1..Len(last.log) :
          last.log[i][1] \in {"prompt", "mkdir", "download", "verified", "record"}
             => last.log[i][2] \in NamesOf(1, k)
    /\ \A i, j \in 1..Len(last.log) :
          (i < j /\ last.log[i][2] \in NamesOf(1, k) /\ last.log[j][2] \in NamesOf(1, k))
             => FindPackage(Packages(manifestFile), last.log[i][2])
                  <= FindPackage(Packages(manifestFile), last.log[j][2])
    /\ last.exit = 1

\* C7 as stated: the record then holds entries for packages 1..k-1 only.
C7_Original ==
    \A k \in 1..Len(Packages(manifestFile)) :
        WildMismatchAt(k) =>
            /\ DOMAIN ReadRecord(recordFile) = NamesOf(1, k - 1)
            /\ WildStoppedAt(k)

\* C7 amended: the record then holds entries for exactly those of packages
\* 1..k-1 whose prompt was not declined (all of them under -y); packages
\* k+1..n are not processed and the exit code is 1.
C7_WildcardFailFast ==
    \A k \in 1..Len(Packages(manifestFile)) :
        WildMismatchAt(k) =>
            /\ DOMAIN ReadRecord(recordFile) =
                  {Packages(manifestFile)[j].name : j \in {i \in 1..(k - 1) : ~batch[i].cancelled}}
            /\ WildStoppedAt(k)

\* C7 witness: of three packages the second failed verification after the
\* first was installed
C7_Witness ==
    /\ WildMismatchAt(2) /\ Len(Packages(manifestFile)) = 3
    /\ ~batch[1].cancelled /\ DOMAIN ReadRecord(recordFile) = {Foo}

\* a wildcard install has gone through the whole manifest, every sub-install
\* succeeding, on a platform all packages support, from an empty record
WildAllInstalled ==
    /\ pc = "exited" /\ last.cmd = "install" /\ last.name = Star
    /\ last.emptyRecord
    /\ Len(batch) = Len(Packages(manifestFile)) /\ Len(batch) > 0
    /\ \A j \in 1..Len(batch) :
          /\ platform \in Packages(manifestFile)[j].os
          /\ batch[j].raised = "none" /\ ~batch[j].cancelled

\* C8: such a run ends with exactly n record entries, one per manifest package
\* (keyed by its name, with its version).
C8_WildcardInstallsAll ==
    WildAllInstalled =>
        /\ DOMAIN ReadRecord(recordFile) = NamesOf(1, Len(Packages(manifestFile)))
        /\ Cardinality(DOMAIN ReadRecord(recordFile)) = Len(Packages(manifestFile))
        /\ \A j \in 1..Len(Packages(manifestFile)) :
              ReadRecord(recordFile)[Packages(manifestFile)[j].name].version
                 = Packages(manifestFile)[j].version

\* C8 witness: three packages, three entries
C8_Witness ==
    WildAllInstalled /\ Len(batch) = 3 /\ last.exit = 0

\* C9: a command ends with exit code 1 exactly when it ended on an error path,
\* and with 0 otherwise; a declined prompt gives 0.
C9_ExitCode ==
    (pc = "exited" /\ last.cmd \in {"install", "uninstall", "update", "list"}) =>
        /\ last.exit \in {0, 1}
        /\ last.exit = 1 <=> last.raised # "none"
        /\ last.cancelled => last.exit = 0
        /\ \A j \in 1..Len(batch) : batch[j].raised # "none" => last.exit = 1

\* C9 witness: an install whose download raised an exception has ended
C9_Witness ==
    /\ pc = "exited" /\ last.cmd = "install" /\ last.raised = "download_failed"
    /\ last.exit = 1

\* answers that are not 'y' after strip() and lower()
NotYes == { <<"n">>, <<"y","e","s">> }

\* C10: an install prompt answered with anything but 'y' (trimmed, any case)
\* is a cancellation: install_package returns without failing, no install
\* directory is created, no artifact is downloaded and the record file is
\* unchanged; the prompt is the last thing the call does.  (The manifest
\* cache, when absent, was fetched before the prompt was shown.)
C10_DeclineHasNoEffect ==
    [][ (InstallCall /\ HasEvent(NewEvents, "prompt") /\ last'.answer \in NotYes) =>
          /\ last'.raised = "none" /\ last'.exit = 0
          /\ (pc = "shell" => last'.cancelled /\ pc' = "exited")
          /\ (pc = "wild" => batch'[Len(batch')].cancelled)
          /\ dirs' = dirs
          /\ recordFile' = recordFile
          /\ \A i \in 1..Len(NewEvents) : NewEvents[i][1] \in {"fetch_manifest", "prompt"}
          /\ NewEvents[Len(NewEvents)][1] = "prompt"
      ]_vars

\* C10 witness: a single-package install was declined with "yes"
C10_Witness ==
    /\ pc = "exited" /\ last.cmd = "install" /\ last.name = Foo
    /\ last.asked /\ last.answer = <<"y","e","s">> /\ last.cancelled

\* the latest install_package call got as far as a verified artifact of a
\* manifest package that asks for a desktop shortcut
VerifiedWithShortcut ==
    /\ last.cmd = "install" /\ last.pkg # 0
    /\ Packages(manifestFile)[last.pkg].shortcut

RecordWasRead ==
    /\ pc = "exited"
    /\ \/ last.cmd = "install" /\ HasEvent(last.log, "verified")
       \/ last.cmd = "uninstall" /\ HasEvent(last.log, "rmtree")
                                 /\ last.raised # "rmtree_failed"

\* C12 as stated: reading the record never fails and always gives a mapping
\* (the empty one for an absent or malformed file), whatever the record file
\* holds, so a command that reads the record does not abort on it.
C12_Original ==
    RecordWasRead =>
        /\ ~ReadRaises(recordFile) /\ ReadsMapping(recordFile)
        /\ (recordFile.kind \in {"absent", "garbage"} => ReadRecord(recordFile) = EmptyMap)
        /\ last.raised \notin {"record_read", "record_set"}

\* C13 as stated: update fetches from the manifest's updateurl when the cache
\* parses (and has one) and from the default URL otherwise; it fails only
\* when the fetch fails, and whenever the fetch succeeds the manifest cache
\* afterwards holds the fetched content, whatever the cache was before
\* (absent with or without its directory, damaged, or valid).
C13_Original ==
    [][ (pc = "shell" /\ last'.cmd = "update") =>
          /\ last'.log[1] = <<"fetch_manifest",
                              IF manifestFile = "valid" THEN RemoteManifest.updateurl
                              ELSE DefaultUpdateUrl>>
          /\ last'.raised \in {"none", "update_fetch_failed"}
          /\ last'.raised # "update_fetch_failed" =>
                /\ manifestFile' = "valid" /\ last'.exit = 0
      ]_vars

\* the step is an uninstall of a name whose install directory exists, in which
\* the prompt (if any) was answered 'y' and rmtree did not fail
UninstallOfExisting ==
    /\ pc = "shell" /\ last'.cmd = "uninstall" /\ last'.name # NoName
    /\ Exists(dirs, last'.name)
    /\ ~last'.cancelled /\ last'.raised # "rmtree_failed"

\* C14 as stated: uninstall goes by the file system alone.  When the install
\* directory exists and the record has no entry under the name, be it because
\* the record file is absent or malformed, uninstall removes the directory,
\* does not abort and exits 0.
C14_Original ==
    [][ (UninstallOfExisting /\ last'.name \notin DOMAIN ReadRecord(recordFile)) =>
          /\ ~Exists(dirs', last'.name)
          /\ last'.raised = "none" /\ last'.exit = 0
      ]_vars

\* the latest install_package call named a manifest package that lists the
\* current platform in os but has no url or no sha256 for it
Uninstallable ==
    /\ last.cmd = "install" /\ CurName \notin {Star, NoName}
    /\ \E i \in {last.pkg} :
          /\ i # 0 /\ platform \in Packages(manifestFile)[i].os
          /\ \/ platform \notin DOMAIN Packages(manifestFile)[i].url
             \/ platform \notin DOMAIN Packages(manifestFile)[i].sha256

\* C15 as stated: install of such a package aborts with exit code 1 and leaves
\* no record entry for it.
C15_Original ==
    (pc = "exited" /\ Uninstallable) =>
        /\ last.raised # "none" /\ last.exit = 1
        /\ ~HasEntryFor(recordFile, manifestFile, last.pkg)

\* C15 amended: such a package cannot be installed.  The call never creates
\* a directory, downloads or writes the record, and leaves directories and
\* record file as they were; it aborts with exit code 1 on the missing entry
\* unless the user declined the prompt, which comes first and is a
\* cancellation (exit code 0).
C15_MissingEntryUninstallable ==
    [][ (InstallCall /\ Uninstallable') =>
          /\ recordFile' = recordFile
          /\ dirs' = dirs
          /\ \A i \in 1..Len(NewEvents) :
                NewEvents[i][1] \notin {"mkdir", "download", "verified", "record"}
          /\ IF HasEvent(NewEvents, "prompt") /\ Declined(last'.answer)
             THEN last'.raised = "none" /\ last'.exit = 0
             ELSE /\ last'.raised \in {"no_url", "no_sha256"}
                  /\ last'.exit = 1 /\ pc' = "exited"
      ]_vars

\* C15 witness: a confirmed install of a package with a url but no sha256
\* for this platform has aborted
C15_Witness ==
    /\ pc = "exited" /\ Uninstallable /\ last.name = Baz
    /\ last.asked /\ ~Declined(last.answer)
    /\ last.raised = "no_sha256" /\ last.exit = 1

\* C16 as stated: install of a package not supported on the current platform
\* aborts with exit code 1 and changes nothing on disk: manifest cache,
\* install directories and record file are after the run what they were
\* before it.
C16_Original ==
    [][ (InstallCall /\ Unsupported') =>
          /\ last'.raised # "none" /\ last'.exit = 1
          /\ manifestFile' = manifestFile
          /\ dirs' = dirs
          /\ recordFile' = recordFile
      ]_vars

\* C16 amended: such an install aborts with exit code 1 and leaves every
\* install directory and the record file as they were; the manifest cache is
\* left as it was when there was one, and when there was none the run has
\* first fetched it (creating its directory), so the cache then holds the
\* fetched manifest.
C16_UnsupportedFrame ==
    [][ (InstallCall /\ Unsupported') =>
          /\ last'.raised = "unsupported_platform" /\ last'.exit = 1 /\ pc' = "exited"
          /\ dirs' = dirs
          /\ recordFile' = recordFile
          /\ IF ManifestExists(manifestFile)
             THEN manifestFile' = manifestFile /\ NewEvents = <<>>
             ELSE manifestFile' = "valid" /\ NewEvents = << <<"fetch_manifest", <<>>>> >>
      ]_vars

\* C16 witness: an install of a package this platform cannot have has aborted
\* after fetching the manifest the machine did not have
C16_Witness ==
    /\ pc = "exited" /\ Unsupported /\ last.name = Bar
    /\ last.raised = "unsupported_platform" /\ last.exit = 1
    /\ last.log = << <<"fetch_manifest", <<>>>> >> /\ manifestFile = "valid"

\* the step is a run of uninstall with a package argument
UninstallCall == pc = "shell" /\ last'.cmd = "uninstall" /\ last'.name # NoName

\* C17 as stated: uninstall(X), for any name X the command line accepts,
\* touches only what belongs to X: the manifest cache, every install directory
\* other than X's, and the record apart from the entry under X are after the
\* run what they were before it.
C17_Original ==
    [][ UninstallCall =>
          /\ manifestFile' = manifestFile
          /\ \A d \in DOMAIN dirs :
                ~SamePath(d, last'.name) => d \in DOMAIN dirs' /\ dirs'[d] = dirs[d]
          /\ DOMAIN dirs' \subseteq DOMAIN dirs
          /\ \/ recordFile' = recordFile
             \/ /\ recordFile.kind = "object" /\ recordFile'.kind = "object"
                /\ recordFile'.map = DelEntry(recordFile.map, last'.name)
      ]_vars

\* C18 as stated: from a machine with no install directory and no record
\* entry, after any sequence of completed commands every name with an entry
\* in the record has an existing install directory.
C18_Original ==
    pc \in {"shell", "exited"} =>
        \A k \in DOMAIN ReadRecord(recordFile) : Exists(dirs, k)

\* the latest install_package call aborted in or right after the download
AbortedAtDownload ==
    last.cmd = "install" /\ last.raised \in {"download_failed", "checksum_mismatch"}

\* the artifact of the latest install_package call is in its install directory
ArtifactOnDisk ==
    \E f \in dirs[Stored(dirs, CurName)] :
        SamePath(f, ArtifactName(CurName, Packages(manifestFile)[last.pkg].url[platform]))

C20_DeclineCancelsOnlyThatPackage ==
    [][ pc = "wild" =>
          /\ Len(batch') = idx
          /\ batch'[idx].name = Packages(manifestFile)[idx].name
          /\ batch'[idx].cancelled =>
                /\ ~last.skip /\ batch'[idx].raised = "none"
                /\ dirs' = dirs /\ recordFile' = recordFile
                /\ idx < Len(Packages(manifestFile)) => pc' = "wild" /\ idx' = idx + 1
          /\ (pc' = "exited" /\ \A j \in 1..Len(batch') : batch'[j].raised = "none") =>
                /\ Len(batch') = Len(Packages(manifestFile))
                /\ last'.exit = 0
      ]_vars

\* C20 witness: of three packages the first was declined, the two after it
\* were installed, and the command has ended with exit code 0
C20_Witness ==
    /\ pc = "exited" /\ last.cmd = "install" /\ last.name = Star /\ last.exit = 0
    /\ Len(batch) = 3 /\ batch[1].cancelled
    /\ ~batch[2].cancelled /\ ~batch[3].cancelled
    /\ last.emptyRecord /\ DOMAIN ReadRecord(recordFile) = {Bar, Baz}

====
